---------------------------- MODULE Spec2Model ----------------------------
(***************************************************************************)
(* Model of the Markdown -> H5P Interactive Book builder                   *)
(* (services/h5pBuilder: buildH5P and its helpers).                        *)
(*                                                                         *)
(* Strings.  A JavaScript string is modelled as the sequence of its        *)
(* tokens; a token is a character (" ", "#", "?", "*", "-", "/") or an     *)
(* indivisible run of characters ("[QUIZ]", "content", "+++").  String     *)
(* equality, startsWith, endsWith, trim and the regular expressions of     *)
(* the source are computed on these sequences.  A multi-line text (the     *)
(* result of join('\n'), the argument of split('\n')) is the non-empty     *)
(* sequence of its lines: the empty string is the text of one empty line.  *)
(* subContentId (uuidv4) values are random and are left out of the         *)
(* content objects.                                                        *)
(***************************************************************************)
EXTENDS Naturals, Sequences, FiniteSets, TLC

VARIABLES
    pc,            \* position of the running buildH5P call
    lines,         \* buildH5P: lines (the normalized document, split)
    chaptersData,  \* buildH5P: chaptersData
    template,      \* templateBuffer: the archive's raw entries and manifest
    zipFiles,      \* zip.files, in key order
    deps,          \* buildH5P: deps (the manifest's preloadedDependencies)
    libs,          \* buildH5P: libs (LibraryVersions)
    contentJson,   \* buildH5P: contentJson
    tasks,         \* the createChapterStructure promises given to Promise.all
    saved,         \* number of save actions performed (saveFile / saveAs)
    error,         \* the error buildH5P threw, or "none"
    call,          \* a helper called on its own: its name and arguments
    result,        \* what that helper has produced so far
    app,           \* App: its useState values, the fetch and the timers
    upload         \* FileUpload: its useState values

vars == <<pc, lines, chaptersData, template, zipFiles, deps, libs,
          contentJson, tasks, saved, error, call, result, app, upload>>

buildVars == <<pc, lines, chaptersData, template, zipFiles, deps, libs,
               contentJson, tasks, saved, error>>

callVars == <<call, result>>

uiVars == <<app, upload>>

None == "none"

(***************************************************************************)
(* String helpers                                                          *)
(***************************************************************************)

\* The characters String.prototype.trim and the regular expression \s remove.
Whitespace == {" ", "\t"}

RECURSIVE TrimStart(_)
TrimStart(s) ==
    IF s # <<>> /\ s[1] \in Whitespace THEN TrimStart(Tail(s)) ELSE s

RECURSIVE TrimEnd(_)
TrimEnd(s) ==
    IF s # <<>> /\ s[Len(s)] \in Whitespace
    THEN TrimEnd(SubSeq(s, 1, Len(s) - 1))
    ELSE s

\* String.prototype.trim
Trim(s) == TrimEnd(TrimStart(s))

\* String.prototype.startsWith
StartsWith(s, p) == Len(s) >= Len(p) /\ SubSeq(s, 1, Len(p)) = p

\* String.prototype.endsWith
EndsWith(s, p) ==
    Len(s) >= Len(p) /\ SubSeq(s, Len(s) - Len(p) + 1, Len(s)) = p

\* Array.prototype.join('\n'): the text whose lines are ls.  No array element
\* holds a line break, so the text of a non-empty array is the array itself,
\* and the empty array joins to the empty string, the text of one empty line.
JoinLines(ls) == IF ls = <<>> THEN << <<>> >> ELSE ls

\* String.prototype.split('\n'): the lines of a text (never an empty array).
SplitLines(text) == text

RECURSIVE Flatten(_)
Flatten(ss) == IF ss = <<>> THEN <<>> ELSE Head(ss) \o Flatten(Tail(ss))

Range(s) == {s[i] : i \in 1..Len(s)}

RECURSIVE SelectSeqIdx(_, _)
\* the increasing sequence of the indices in the set idx
SelectSeqIdx(n, idx) ==
    IF n = 0 THEN <<>>
    ELSE SelectSeqIdx(n - 1, idx) \o (IF n \in idx THEN <<n>> ELSE <<>>)


(***************************************************************************)
(* buildH5P, step 1: chapter splitting                                     *)
(***************************************************************************)

\* line.trim().startsWith('# ')
IsHeading(line) == StartsWith(Trim(line), <<"#", " ">>)

\* line.replace(/^#\s+/, '').trim(): the pattern is anchored at the start of
\* the untrimmed line, so it removes nothing from a line that starts with
\* whitespace.
HeadingTitle(line) ==
    IF Len(line) >= 2 /\ line[1] = "#" /\ line[2] \in Whitespace
    THEN Trim(TrimStart(Tail(line)))
    ELSE Trim(line)

\* The title the implicit first chapter starts with.
Introduction == <<"Introduction">>

\* The loop variables before the forEach: currentTitle, currentLines,
\* isImplicit, and chaptersData.
SplitStart(ls) ==
    IF Len(ls) > 0 /\ IsHeading(ls[1])
    THEN [currentTitle |-> <<>>, currentLines |-> <<>>,
          isImplicit |-> FALSE, chaptersData |-> <<>>]
    ELSE [currentTitle |-> Introduction, currentLines |-> <<>>,
          isImplicit |-> TRUE, chaptersData |-> <<>>]

\* The chapter record pushed to chaptersData.
ChapterData(title, ls) == [title |-> title, content |-> JoinLines(ls)]

\* Whether the loop pushes the open chapter when it meets a heading.
PushAtHeading(st) ==
    st.currentTitle # <<>> /\ (Len(st.currentLines) > 0 \/ ~st.isImplicit)

\* Faulty variant of SplitLine: currentLines is not reset at a heading.
SplitLineNoReset(st, line) ==
    IF IsHeading(line)
    THEN [currentTitle |-> HeadingTitle(line),
          currentLines |-> st.currentLines,
          isImplicit |-> FALSE,
          chaptersData |->
              IF PushAtHeading(st)
              THEN Append(st.chaptersData,
                          ChapterData(st.currentTitle, st.currentLines))
              ELSE st.chaptersData]
    ELSE [st EXCEPT !.currentLines = Append(@, line)]

\* One iteration of lines.forEach.
SplitLine(st, line) ==
    IF IsHeading(line)
    THEN [currentTitle |-> HeadingTitle(line),
          currentLines |-> <<>>,
          isImplicit |-> FALSE,
          chaptersData |->
              IF PushAtHeading(st)
              THEN Append(st.chaptersData,
                          ChapterData(st.currentTitle, st.currentLines))
              ELSE st.chaptersData]
    ELSE [st EXCEPT !.currentLines = Append(@, line)]

RECURSIVE SplitLoop(_, _)
SplitLoop(st, ls) ==
    IF ls = <<>> THEN st ELSE SplitLoop(SplitLine(st, Head(ls)), Tail(ls))

\* Whether the chapter still open after the loop is pushed.
PushAtEnd(st) == st.currentTitle # <<>> /\ Len(st.currentLines) > 0

\* chaptersData as it stands at the no-chapters test.
SplitChapters(ls) ==
    LET st == SplitLoop(SplitStart(ls), ls)
    IN  IF PushAtEnd(st)
        THEN Append(st.chaptersData,
                    ChapterData(st.currentTitle, st.currentLines))
        ELSE st.chaptersData

NoChaptersError == "No chapters found. Use '# Chapter Title' to create pages."

(***************************************************************************)
(* parseChapterSegments                                                    *)
(***************************************************************************)

\* The block kinds of ContentBlock['type'].
BlockTypes == {"text", "accordion", "quiz", "image", "video", "fill", "drag"}

\* Strings that match /^!\[(.*?)\]\((.*?)\)/ as a whole: one token each.
ImageTokens == {"![a](p.jpg)", "![](dir/q.png)"}

\* imageRegex.test(s): the pattern is anchored at the start only.
IsImageSyntax(s) == s # <<>> /\ s[1] \in ImageTokens

\* The sentinel a trimmed line equals, as the kind it opens, or None.
TagType(trimmed) ==
    CASE trimmed = <<"[ACCORDION]">> -> "accordion"
      [] trimmed = <<"[QUIZ]">>      -> "quiz"
      [] trimmed = <<"[VIDEO]">>     -> "video"
      [] trimmed = <<"[FILL]">>      -> "fill"
      [] trimmed = <<"[DRAG]">>      -> "drag"
      [] trimmed = <<"[TEXT]">>      -> "text"
      [] OTHER                       -> None

\* currentLines.some(l => l.trim() !== "")
HasContent(ls) == \E i \in 1..Len(ls) : Trim(ls[i]) # <<>>

\* Faulty variant of Flush: the pending block is pushed whenever it has a line,
\* without the test for content.
FlushAlways(st, newType) ==
    [blocks |->
        IF Len(st.currentLines) > 0
        THEN Append(st.blocks,
                    [type |-> st.currentType, lines |-> st.currentLines])
        ELSE st.blocks,
     currentType |-> newType,
     currentLines |-> <<>>]

\* The closure flush(newType) on the parser's variables.
Flush(st, newType) ==
    [blocks |->
        IF Len(st.currentLines) > 0
           /\ (st.currentType # "text" \/ HasContent(st.currentLines))
        THEN Append(st.blocks,
                    [type |-> st.currentType, lines |-> st.currentLines])
        ELSE st.blocks,
     currentType |-> newType,
     currentLines |-> <<>>]

\* Faulty variant of ParseLine: an image line opens an image block in every
\* kind.
ParseLineImageAnywhere(st, line) ==
    LET trimmed == Trim(line)
    IN  IF TagType(trimmed) # None
        THEN Flush(st, TagType(trimmed))
        ELSE IF IsImageSyntax(trimmed)
        THEN [blocks |-> Append(Flush(st, "text").blocks,
                                [type |-> "image", lines |-> <<trimmed>>]),
              currentType |-> "text",
              currentLines |-> <<>>]
        ELSE [st EXCEPT !.currentLines = Append(@, line)]

\* One iteration of the loop over the lines.
ParseLine(st, line) ==
    LET trimmed == Trim(line)
    IN  IF TagType(trimmed) # None
        THEN Flush(st, TagType(trimmed))
        ELSE IF IsImageSyntax(trimmed) /\ st.currentType = "text"
        THEN [blocks |-> Append(Flush(st, "text").blocks,
                                [type |-> "image", lines |-> <<trimmed>>]),
              currentType |-> "text",
              currentLines |-> <<>>]
        ELSE [st EXCEPT !.currentLines = Append(@, line)]

RECURSIVE ParseLoop(_, _)
ParseLoop(st, ls) ==
    IF ls = <<>> THEN st ELSE ParseLoop(ParseLine(st, Head(ls)), Tail(ls))

\* parseChapterSegments(markdown): the model's texts hold no '\r', so the
\* two replace calls change nothing.
ParseChapterSegments(markdown) ==
    Flush(ParseLoop([blocks |-> <<>>, currentType |-> "text",
                     currentLines |-> <<>>],
                    SplitLines(markdown)),
          "text").blocks

(***************************************************************************)
(* Content builders                                                        *)
(***************************************************************************)

\* The value null of a "string | null" field.  It is no string: its one
\* token occurs in no string of the model.
Null == <<"<null>">>

\* The value null a builder returns in place of a content object.
NullObject == [library |-> Null]

\* String.prototype.includes(word), for a word that is one token.
Includes(s, word) == word \in Range(s)

\* The builders' guard: !lib || lib.includes("null")
LibMissing(lib) == lib = Null \/ lib = <<>> \/ Includes(lib, "null")

createMetadata(title, contentType) ==
    [license |-> "U", title |-> title, contentType |-> contentType]

\* marked.parse(markdown), an external renderer: the HTML of a text is one
\* node that carries the text, and a text of blank lines renders to the
\* empty string (no node).
MarkedParse(markdown) ==
    IF HasContent(markdown)
    THEN << [tag |-> "html", src |-> markdown] >>
    ELSE <<>>

\* src.split(/[/\\]/).pop() || 'Image' of the path an image token names.
ImageFileName(tok) ==
    CASE tok = "![a](p.jpg)"    -> "p.jpg"
      [] tok = "![](dir/q.png)" -> "q.png"
      [] OTHER                  -> "Image"

\* The placeholder <div> that replaces the <img> an image token renders to.
ImagePlaceholder(tok) == <<"Image Placeholder: ", ImageFileName(tok)>>

RECURSIVE ReplaceImages(_)
ReplaceImages(line) ==
    IF line = <<>> THEN <<>>
    ELSE (IF Head(line) \in ImageTokens
          THEN ImagePlaceholder(Head(line))
          ELSE <<Head(line)>>) \o ReplaceImages(Tail(line))

\* processHtmlContent(rawHtml): every <img> becomes a placeholder block (the
\* model's texts hold no table).
processHtmlContent(rawHtml) ==
    [i \in 1..Len(rawHtml) |->
        [rawHtml[i] EXCEPT
            !.src = [j \in 1..Len(rawHtml[i].src) |->
                        ReplaceImages(rawHtml[i].src[j])]]]

\* The "Missing Library" banner buildTextObject puts before the content.
MissingLibraryDiv(fallbackTitle) ==
    [tag |-> "Missing Library:", src |-> << fallbackTitle >>]

NbspParagraph == << [tag |-> "<p>&nbsp;</p>", src |-> << <<>> >>] >>

EmptyParagraph == << [tag |-> "<p></p>", src |-> << <<>> >>] >>

\* buildTextObject(markdown, libs, fallbackTitle); fallbackTitle is the empty
\* string when the argument is left out.
buildTextObject(markdown, lv, fallbackTitle) ==
    LET parsed == processHtmlContent(MarkedParse(markdown))
        htmlContent == IF fallbackTitle # <<>>
                       THEN <<MissingLibraryDiv(fallbackTitle)>> \o parsed
                       ELSE parsed
    IN  [library |-> lv.text,
         params |-> [text |-> IF htmlContent # <<>> THEN htmlContent
                              ELSE NbspParagraph],
         metadata |-> createMetadata(<<"Text">>, <<"Text">>)]

\* line.replace(/^\+{3,}\s*/, '').trim() || "Panel": anchored at the start
\* of the untrimmed line.
RECURSIVE DropWhile(_, _)
DropWhile(s, set) ==
    IF s # <<>> /\ s[1] \in set THEN DropWhile(Tail(s), set) ELSE s

PanelTitle(line) ==
    LET rest == IF line # <<>> /\ line[1] = "+++"
                THEN Trim(DropWhile(DropWhile(Tail(line), {"+"}), Whitespace))
                ELSE Trim(line)
    IN  IF rest # <<>> THEN rest ELSE <<"Panel">>

\* One iteration of buildAccordionObject's loop: panels, and whether a
\* panel is open (currentPanel is the last of panels).
AccordionLine(st, line) ==
    IF StartsWith(Trim(line), <<"+++">>)
    THEN [panels |-> Append(st.panels,
                            [title |-> PanelTitle(line),
                             markdownLines |-> <<>>]),
          open |-> TRUE]
    ELSE IF st.open
    THEN [st EXCEPT !.panels[Len(st.panels)].markdownLines = Append(@, line)]
    ELSE st

RECURSIVE AccordionLoop(_, _)
AccordionLoop(st, ls) ==
    IF ls = <<>> THEN st
    ELSE AccordionLoop(AccordionLine(st, Head(ls)), Tail(ls))

\* The panel object built from one collected panel.
ProcessPanel(p, lv) ==
    LET finalHtml == processHtmlContent(MarkedParse(JoinLines(p.markdownLines)))
    IN  [title |-> p.title,
         content |->
            [library |-> lv.text,
             params |-> [text |-> IF finalHtml # <<>> THEN finalHtml
                                  ELSE EmptyParagraph],
             metadata |-> createMetadata(<<"Panel Content">>, <<"Text">>)]]

\* buildAccordionObject(lines, libs): NullObject when the library is missing.
buildAccordionObject(ls, lv) ==
    IF LibMissing(lv.accordion) THEN NullObject
    ELSE LET panels == AccordionLoop([panels |-> <<>>, open |-> FALSE],
                                     ls).panels
         IN  [library |-> lv.accordion,
              params |-> [panels |-> [i \in 1..Len(panels) |->
                                         ProcessPanel(panels[i], lv)],
                          hTag |-> "h2"],
              metadata |-> createMetadata(<<"Accordion">>, <<"Accordion">>)]

\* Faulty variant of QuizLine: the '*' answer is pushed, not unshifted.
QuizLineAppend(st, line) ==
    LET trimmed == Trim(line)
    IN  IF StartsWith(trimmed, <<"?">>)
        THEN [choices |-> IF st.open
                          THEN Append(st.choices, st.currentChoice)
                          ELSE st.choices,
              open |-> TRUE,
              currentChoice |-> [question |-> Trim(Tail(trimmed)),
                                 answers |-> <<>>]]
        ELSE IF st.open /\ (StartsWith(trimmed, <<"*">>)
                            \/ StartsWith(trimmed, <<"-">>))
        THEN [st EXCEPT !.currentChoice.answers = Append(@, Trim(Tail(trimmed)))]
        ELSE st

\* One iteration of buildQuizObject's loop: choices, and currentChoice
\* (open is FALSE while currentChoice is null).
QuizLine(st, line) ==
    LET trimmed == Trim(line)
    IN  IF StartsWith(trimmed, <<"?">>)
        THEN [choices |-> IF st.open
                          THEN Append(st.choices, st.currentChoice)
                          ELSE st.choices,
              open |-> TRUE,
              currentChoice |-> [question |-> Trim(Tail(trimmed)),
                                 answers |-> <<>>]]
        ELSE IF st.open /\ StartsWith(trimmed, <<"*">>)
        THEN [st EXCEPT !.currentChoice.answers = <<Trim(Tail(trimmed))>> \o @]
        ELSE IF st.open /\ StartsWith(trimmed, <<"-">>)
        THEN [st EXCEPT !.currentChoice.answers = Append(@, Trim(Tail(trimmed)))]
        ELSE st

RECURSIVE QuizLoop(_, _)
QuizLoop(st, ls) ==
    IF ls = <<>> THEN st ELSE QuizLoop(QuizLine(st, Head(ls)), Tail(ls))

\* The choices array buildQuizObject ends with.
QuizChoices(ls) ==
    LET st == QuizLoop([choices |-> <<>>, open |-> FALSE,
                        currentChoice |-> [question |-> <<>>,
                                           answers |-> <<>>]],
                       ls)
    IN  IF st.open THEN Append(st.choices, st.currentChoice) ELSE st.choices

\* buildQuizObject(lines, libs): NullObject when the library is missing.
buildQuizObject(ls, lv) ==
    IF LibMissing(lv.singleChoice) THEN NullObject
    ELSE [library |-> lv.singleChoice,
          params |-> [choices |-> QuizChoices(ls),
                      behaviour |-> [autoContinue |-> TRUE,
                                     enableRetry |-> TRUE,
                                     enableSolutionsButton |-> TRUE,
                                     passPercentage |-> 100,
                                     soundEffectsEnabled |-> TRUE,
                                     timeoutCorrect |-> 2000,
                                     timeoutWrong |-> 3000]],
          metadata |-> createMetadata(<<"Quiz">>, <<"Single Choice Set">>)]

\* match[1] of /^!\[(.*?)\]\((.*?)\)/ on the line, "Image" without a match.
ImageAlt(line) ==
    IF ~IsImageSyntax(line) THEN <<"Image">>
    ELSE CASE line[1] = "![a](p.jpg)" -> <<"a">>
           [] OTHER                   -> <<>>

\* The path every image object points at.
MissingImagePath == "images/missing.jpg"

\* buildImageObject(line, libs): NullObject when the library is missing.
buildImageObject(line, lv) ==
    IF LibMissing(lv.image) THEN NullObject
    ELSE [library |-> lv.image,
          params |-> [alt |-> ImageAlt(line),
                      contentName |-> "Image",
                      file |-> [path |-> MissingImagePath,
                                mime |-> "image/jpeg"]],
          metadata |-> createMetadata(<<"Image Placeholder">>, <<"Image">>)]

\* buildVideoObject(libs): NullObject when the library is missing.
buildVideoObject(lv) ==
    IF LibMissing(lv.video) THEN NullObject
    ELSE [library |-> lv.video,
          params |-> [sources |-> <<>>,
                      visuals |-> [fit |-> TRUE, controls |-> TRUE],
                      playback |-> [autoplay |-> FALSE, loop |-> FALSE]],
          metadata |-> createMetadata(<<"Video Placeholder">>, <<"Video">>)]

\* lines.filter(l => l.trim() !== "").map(l => `<p>${l.trim()}</p>`)
RECURSIVE BlanksQuestions(_)
BlanksQuestions(ls) ==
    IF ls = <<>> THEN <<>>
    ELSE (IF Trim(Head(ls)) # <<>> THEN << Trim(Head(ls)) >> ELSE <<>>)
         \o BlanksQuestions(Tail(ls))

\* buildBlanksObject(lines, libs): NullObject when the library is missing.
buildBlanksObject(ls, lv) ==
    IF LibMissing(lv.blanks) THEN NullObject
    ELSE [library |-> lv.blanks,
          params |-> [questions |-> BlanksQuestions(ls),
                      behaviour |-> [enableRetry |-> TRUE,
                                     enableSolutionsButton |-> TRUE,
                                     autoRetry |-> TRUE,
                                     caseSensitive |-> FALSE,
                                     showSolutionsRequiresInput |-> TRUE,
                                     separateLines |-> FALSE]],
          metadata |-> createMetadata(<<"Cloze Test">>,
                                      <<"Fill in the Blanks">>)]

\* buildDragTextObject(lines, libs): NullObject when the library is missing.
buildDragTextObject(ls, lv) ==
    IF LibMissing(lv.dragText) THEN NullObject
    ELSE [library |-> lv.dragText,
          params |-> [textField |-> JoinLines(ls),
                      taskDescription |->
                          "Drag the words into the correct boxes.",
                      behaviour |-> [enableRetry |-> TRUE,
                                     enableSolutionsButton |-> TRUE,
                                     instantFeedback |-> FALSE]],
          metadata |-> createMetadata(<<"Drag Text">>, <<"Drag the Words">>)]

(***************************************************************************)
(* createChapterStructure                                                  *)
(***************************************************************************)

VideoPlaceholderText == << <<"[VIDEO PLACEHOLDER]">> >>

EmptyChapterText == << <<"<p>(Empty Chapter)</p>">> >>

\* The text passed to buildTextObject when a builder returned null, by the
\* kind of the segment.
FallbackMarkdown(segment) ==
    CASE segment.type = "image" -> << segment.lines[1] >>
      [] segment.type = "video" -> VideoPlaceholderText
      [] OTHER                  -> JoinLines(segment.lines)

\* The fallbackTitle passed with it.
FallbackTitle(type) ==
    CASE type = "accordion" -> <<"Accordion (Library missing)">>
      [] type = "quiz"      -> <<"Quiz (Library missing)">>
      [] type = "image"     -> <<"Image (Library missing)">>
      [] type = "video"     -> <<"Video (Library missing)">>
      [] type = "fill"      -> <<"Fill in the Blanks (Library missing)">>
      [] type = "drag"      -> <<"Drag the Words (Library missing)">>
      [] OTHER              -> <<>>

\* What the segment's own builder returns.
BuildSegment(segment, lv) ==
    CASE segment.type = "text" ->
            buildTextObject(JoinLines(segment.lines), lv, <<>>)
      [] segment.type = "accordion" -> buildAccordionObject(segment.lines, lv)
      [] segment.type = "quiz"      -> buildQuizObject(segment.lines, lv)
      [] segment.type = "image"     -> buildImageObject(segment.lines[1], lv)
      [] segment.type = "video"     -> buildVideoObject(lv)
      [] segment.type = "fill"      -> buildBlanksObject(segment.lines, lv)
      [] segment.type = "drag"      -> buildDragTextObject(segment.lines, lv)
      [] OTHER                      -> NullObject

\* Faulty variant of SegmentContent: no fallback when the builder returns null.
SegmentContentNoFallback(segment, lv) == BuildSegment(segment, lv)

\* contentObj at the end of one iteration of the loop over the segments.
SegmentContent(segment, lv) ==
    LET contentObj == BuildSegment(segment, lv)
    IN  IF contentObj = NullObject /\ segment.type \in BlockTypes \ {"text"}
        THEN buildTextObject(FallbackMarkdown(segment), lv,
                             FallbackTitle(segment.type))
        ELSE contentObj

Wrapper(contentObj) == [content |-> contentObj, useSeparator |-> "auto"]

\* contentWrappers after the loop: a wrapper is pushed when contentObj is
\* not null.
RECURSIVE ContentWrappers(_, _)
ContentWrappers(segments, lv) ==
    IF segments = <<>> THEN <<>>
    ELSE LET contentObj == SegmentContent(Head(segments), lv)
         IN  (IF contentObj # NullObject THEN <<Wrapper(contentObj)>>
              ELSE <<>>) \o ContentWrappers(Tail(segments), lv)

\* Faulty variant of ChapterOfSegments: no placeholder for an empty list.
ChapterOfSegmentsNoPlaceholder(title, segments, lv) ==
    [library |-> lv.column,
     metadata |-> createMetadata(title, <<"Column">>),
     params |-> [content |-> ContentWrappers(segments, lv)]]

\* createChapterStructure(title, markdownContent, libs), from the segments
\* parseChapterSegments returned.
ChapterOfSegments(title, segments, lv) ==
    LET contentWrappers == ContentWrappers(segments, lv)
    IN  [library |-> lv.column,
         metadata |-> createMetadata(title, <<"Column">>),
         params |-> [content |->
            IF Len(contentWrappers) = 0
            THEN <<Wrapper(buildTextObject(EmptyChapterText, lv, <<>>))>>
            ELSE contentWrappers]]

createChapterStructure(title, markdownContent, lv) ==
    ChapterOfSegments(title, ParseChapterSegments(markdownContent), lv)

(***************************************************************************)
(* createChapterStructure called on its own                                *)
(***************************************************************************)

\* `${machineName} ${major}.${minor}`
LibString(machineName, major, minor) == <<machineName, " ", major, ".", minor>>

\* A LibraryVersions table with every library found.
LibsAvailable ==
    [column       |-> LibString("H5P.Column", "1", "13"),
     text         |-> LibString("H5P.AdvancedText", "1", "1"),
     isAdvancedText |-> TRUE,
     accordion    |-> LibString("H5P.Accordion", "1", "0"),
     singleChoice |-> LibString("H5P.SingleChoiceSet", "1", "11"),
     image        |-> LibString("H5P.Image", "1", "1"),
     video        |-> LibString("H5P.Video", "1", "5"),
     blanks       |-> LibString("H5P.Blanks", "1", "12"),
     dragText     |-> LibString("H5P.DragText", "1", "8")]

\* One with every nullable entry null.
LibsNull ==
    [LibsAvailable EXCEPT !.accordion = Null, !.singleChoice = Null,
                          !.image = Null, !.video = Null,
                          !.blanks = Null, !.dragText = Null]

\* One with some entries null, some empty, some holding the word "null".
LibsMixed ==
    [LibsAvailable EXCEPT !.accordion = LibString("H5P.Accordion", "null", "null"),
                          !.image = <<>>,
                          !.video = Null,
                          !.dragText = LibString("H5P.DragText", "null", "null")]

LibTables == {LibsAvailable, LibsNull, LibsMixed}

\* The lines a chapter body is drawn from.
BodyLinePool ==
    { <<>>, <<" ">>, <<"x">>, <<"[QUIZ]">>, <<" ", "[VIDEO]", " ">>,
      <<"[ACCORDION]">>, <<"[FILL]">>, <<"[DRAG]">>, <<"[TEXT]">>,
      <<"![a](p.jpg)">>, <<"?", " ", "q">>, <<"+++", " ", "T">> }

\* The longest chapter body, in lines.
MaxBodyLines == 3

RECURSIVE SeqsUpTo(_, _)
\* the sequences over set of length 0..n
SeqsUpTo(set, n) ==
    IF n = 0 THEN { <<>> }
    ELSE LET shorter == SeqsUpTo(set, n - 1)
         IN  shorter \cup {Append(s, x) : s \in {t \in shorter : Len(t) = n - 1},
                                          x \in set}

\* The texts a chapter body can be: split('\n') of any string has a line.
Bodies == {b \in SeqsUpTo(BodyLinePool, MaxBodyLines) : Len(b) >= 1}

NoCall == [fn |-> None]

NoResult == [stage |-> None]

\* No template buffer.
NoTemplate ==
    [corrupt |-> FALSE, entries |-> <<>>,
     manifest |-> [parseable |-> FALSE, mainLibrary |-> <<>>,
                   preloadedDependencies |-> <<>>],
     content |-> [parseable |-> FALSE, chapters |-> <<>>, settings |-> None]]

\* contentJson before it is read.
NoContent == [chapters |-> <<>>, settings |-> None]

\* No file: the null of File | null.
NoFile == [name |-> <<>>, lines |-> <<>>]

\* useState's initial values in App, before the effect has run.
AppStart ==
    [fetch |-> "pending", fetched |-> NoTemplate,
     templateBuffer |-> NoTemplate, loadingTemplate |-> TRUE,
     error |-> None, selectedFile |-> NoFile, isProcessing |-> FALSE,
     isSuccess |-> FALSE, validationMsg |-> None, timers |-> 0,
     started |-> 0]

\* useState's initial values in FileUpload.
UploadStart == [selectedFile |-> NoFile, error |-> None]

\* The interface variables where no interface is mounted.
UiIdle ==
    /\ app = AppStart
    /\ upload = UploadStart

\* The buildH5P variables while no build runs.
BuildIdle ==
    /\ pc = "idle"
    /\ lines = <<>>
    /\ chaptersData = <<>>
    /\ template = NoTemplate
    /\ zipFiles = <<>>
    /\ deps = <<>>
    /\ libs = LibsNull
    /\ contentJson = NoContent
    /\ tasks = <<>>
    /\ saved = 0
    /\ error = None

InitSeg ==
    /\ BuildIdle
    /\ UiIdle
    /\ \E markdownContent \in Bodies, lv \in LibTables :
          call = [fn |-> "createChapterStructure", title |-> <<"A">>,
                  markdownContent |-> markdownContent, libs |-> lv]
    /\ result = [stage |-> "called", segments |-> <<>>, chapter |-> NullObject]

\* const segments = parseChapterSegments(markdownContent)
ParseSegments ==
    /\ call.fn = "createChapterStructure"
    /\ result.stage = "called"
    /\ result' = [result EXCEPT !.stage = "parsed",
                     !.segments = ParseChapterSegments(call.markdownContent)]
    /\ UNCHANGED <<call, buildVars, uiVars>>

\* the loop over the segments, the placeholder, and the return
BuildChapter ==
    /\ call.fn = "createChapterStructure"
    /\ result.stage = "parsed"
    /\ result' = [result EXCEPT !.stage = "built",
                     !.chapter = ChapterOfSegments(call.title, result.segments,
                                                   call.libs)]
    /\ UNCHANGED <<call, buildVars, uiVars>>

NextSeg == ParseSegments \/ BuildChapter

SpecSeg == InitSeg /\ [][NextSeg]_vars

(***************************************************************************)
(* Claims about parseChapterSegments and createChapterStructure            *)
(***************************************************************************)

\* The libs entry a block kind's builder reads.
LibOfType(lv, type) ==
    CASE type = "accordion" -> lv.accordion
      [] type = "quiz"      -> lv.singleChoice
      [] type = "image"     -> lv.image
      [] type = "video"     -> lv.video
      [] type = "fill"      -> lv.blanks
      [] type = "drag"      -> lv.dragText
      [] OTHER              -> lv.text

\* A call of createChapterStructure has returned.
ChapterBuilt == call.fn = "createChapterStructure" /\ result.stage = "built"

\* Block i of the call is of a kind with a library, and the library is
\* unavailable.
BlockUnavailable(i) ==
    /\ result.segments[i].type \in BlockTypes \ {"text"}
    /\ LibMissing(LibOfType(call.libs, result.segments[i].type))

\* The content object is a text object carrying the library-missing banner
\* of the kind, followed by the rendering of the text md.
IsAnnotatedTextOf(obj, type, md) ==
    /\ obj.library = call.libs.text
    /\ obj.metadata.contentType = <<"Text">>
    /\ obj.params.text =
          << [tag |-> "Missing Library:", src |-> << FallbackTitle(type) >>] >>
          \o processHtmlContent(MarkedParse(md))

\* C2 as stated: every block of kind accordion, quiz, image, video, fill or
\* drag whose library is unavailable is replaced, at its own position, by a
\* text object rendered from the block's own raw lines and annotated as
\* library missing; no block is dropped.
C2_AsStated ==
    ChapterBuilt =>
        LET content == result.chapter.params.content
            segments == result.segments
        IN  /\ Len(segments) > 0 => Len(content) = Len(segments)
            /\ \A i \in 1..Len(segments) :
                  BlockUnavailable(i) =>
                      /\ i <= Len(content)
                      /\ IsAnnotatedTextOf(content[i].content, segments[i].type,
                                           JoinLines(segments[i].lines))

\* C2, amended: the same for accordion, quiz, image, fill and drag blocks; a
\* video block whose library is unavailable is replaced, at its position, by
\* an annotated text object rendered from the fixed text
\* "[VIDEO PLACEHOLDER]", not from the block's lines.  No block is dropped
\* and the number of wrappers is the number of blocks.
C2_Fallback ==
    ChapterBuilt =>
        LET content == result.chapter.params.content
            segments == result.segments
        IN  /\ Len(segments) > 0 => Len(content) = Len(segments)
            /\ \A i \in 1..Len(segments) :
                  BlockUnavailable(i) =>
                      /\ i <= Len(content)
                      /\ IsAnnotatedTextOf(content[i].content, segments[i].type,
                            IF segments[i].type = "video"
                            THEN << <<"[VIDEO PLACEHOLDER]">> >>
                            ELSE JoinLines(segments[i].lines))

\* C2 witness: a chapter was built in which a video block and an image
\* block both met an unavailable library.
C2_Witness ==
    /\ ChapterBuilt
    /\ \E i, j \in 1..Len(result.segments) :
          /\ BlockUnavailable(i) /\ result.segments[i].type = "video"
          /\ BlockUnavailable(j) /\ result.segments[j].type = "image"

\* C7: the chapter container's content list is never empty and holds one
\* wrapper with separator mode "auto" per parsed block, in block order (the
\* wrapper at position i holds the object built from block i); a body that
\* parses to zero blocks gives exactly one placeholder text object.
C7_Container ==
    ChapterBuilt =>
        LET content == result.chapter.params.content
            segments == result.segments
        IN  /\ Len(content) >= 1
            /\ \A i \in 1..Len(content) : content[i].useSeparator = "auto"
            /\ Len(segments) > 0 =>
                  /\ Len(content) = Len(segments)
                  /\ \A i \in 1..Len(segments) :
                        content[i].content =
                            SegmentContent(segments[i], call.libs)
            /\ Len(segments) = 0 =>
                  /\ Len(content) = 1
                  /\ content[1].content.library = call.libs.text
                  /\ content[1].content.metadata.contentType = <<"Text">>
                  /\ content[1].content.params.text =
                        << [tag |-> "html",
                            src |-> << <<"<p>(Empty Chapter)</p>">> >>] >>

\* C7 witness: a chapter built from a body that parsed to zero blocks.
C7_Witness ==
    /\ ChapterBuilt
    /\ Len(result.segments) = 0
    /\ Len(call.markdownContent) >= 2

\* C10: no emitted block of kind text has lines that are all blank.
C10_NoBlankText ==
    result.stage \in {"parsed", "built"} =>
        \A i \in 1..Len(result.segments) :
            result.segments[i].type = "text" =>
                \E j \in 1..Len(result.segments[i].lines) :
                    Trim(result.segments[i].lines[j]) # <<>>

\* C10 witness: the body starts with blank lines that a tag closes, and a
\* text block was emitted later.
C10_Witness ==
    /\ result.stage = "parsed"
    /\ Len(call.markdownContent) >= 3
    /\ Trim(call.markdownContent[1]) = <<>>
    /\ TagType(Trim(call.markdownContent[2])) # None
    /\ \E i \in 1..Len(result.segments) : result.segments[i].type = "text"

(***************************************************************************)
(* buildQuizObject called on its own                                       *)
(***************************************************************************)

\* The lines a quiz block is drawn from.
QuizLinePool ==
    { <<"?", " ", "q">>, <<" ", "?", "r", " ">>, <<"*", " ", "a">>,
      <<" ", "*", "b">>, <<"-", " ", "c">>, <<"-", "d", " ">>, <<"x">>, <<>> }

\* The longest quiz block, in lines.
MaxQuizLines == 4

InitQuiz ==
    /\ BuildIdle
    /\ UiIdle
    /\ \E ls \in SeqsUpTo(QuizLinePool, MaxQuizLines),
          lv \in {LibsAvailable, LibsNull} :
          call = [fn |-> "buildQuizObject", lines |-> ls, libs |-> lv]
    /\ result = [stage |-> "called", object |-> NullObject]

BuildQuiz ==
    /\ call.fn = "buildQuizObject"
    /\ result.stage = "called"
    /\ result' = [stage |-> "built",
                  object |-> buildQuizObject(call.lines, call.libs)]
    /\ UNCHANGED <<call, buildVars, uiVars>>

NextQuiz == BuildQuiz

SpecQuiz == InitQuiz /\ [][NextQuiz]_vars

\* A call of buildQuizObject has returned a quiz object.
QuizBuilt ==
    /\ call.fn = "buildQuizObject"
    /\ result.stage = "built"
    /\ result.object # NullObject

\* The indices of the block's lines that start, trimmed, with the mark.
MarkedLines(ls, mark) ==
    {i \in 1..Len(ls) : Trim(ls[i]) # <<>> /\ Trim(ls[i])[1] = mark}

\* The text of a marked line: what follows the mark, trimmed.
MarkedText(line) == Trim(Tail(Trim(line)))

\* The indices of the lines that belong to the question opened at line q:
\* those after q and before the next '?' line.
QuestionLines(ls, q) ==
    {i \in (q + 1)..Len(ls) :
        \A p \in MarkedLines(ls, "?") : p > q => i < p}

\* C6: for every question with exactly one '*' line and k '-' lines, in any
\* relative order, the answer list has length k+1, the '*' line's trimmed
\* text is at index 0 and the '-' answers follow in source order.
C6_CorrectFirst ==
    QuizBuilt =>
        LET ls == call.lines
            questions == SelectSeqIdx(Len(ls), MarkedLines(ls, "?"))
            choices == result.object.params.choices
        IN  /\ Len(choices) = Len(questions)
            /\ \A n \in 1..Len(questions) :
                  LET mine == QuestionLines(ls, questions[n])
                      stars == mine \cap MarkedLines(ls, "*")
                      dashes == SelectSeqIdx(Len(ls),
                                             mine \cap MarkedLines(ls, "-"))
                  IN  Cardinality(stars) = 1 =>
                        /\ Len(choices[n].answers) = Len(dashes) + 1
                        /\ \A s \in stars :
                              choices[n].answers[1] = MarkedText(ls[s])
                        /\ \A k \in 1..Len(dashes) :
                              choices[n].answers[k + 1] =
                                  MarkedText(ls[dashes[k]])

\* C6 witness: a quiz was built from a question whose single '*' line comes
\* after two '-' lines.
C6_Witness ==
    /\ QuizBuilt
    /\ Len(call.lines) = 4
    /\ 1 \in MarkedLines(call.lines, "?")
    /\ {2, 3} \subseteq MarkedLines(call.lines, "-")
    /\ 4 \in MarkedLines(call.lines, "*")
    /\ call.lines[2] # call.lines[3]

(***************************************************************************)
(* The archive: zip.files as the sequence of its entries in key order,     *)
(* and the JSZip calls buildH5P makes on it                                *)
(***************************************************************************)

Slash == <<"/">>

ZipKeys(files) == {files[i].name : i \in 1..Len(files)}

\* this.files[name] = object: a new key goes last, a known key keeps its
\* place.
SetKey(files, entry) ==
    IF entry.name \in ZipKeys(files)
    THEN [i \in 1..Len(files) |->
            IF files[i].name = entry.name THEN entry ELSE files[i]]
    ELSE Append(files, entry)

\* delete zip.files[name]
DeleteKey(files, name) ==
    SelectSeq(files, LAMBDA e : e.name # name)

ForceTrailingSlash(name) ==
    IF EndsWith(name, Slash) THEN name ELSE name \o Slash

\* the 1-based place of the last "/" of the path, 0 without one
LastSlash(path) ==
    LET at == {i \in 1..Len(path) : path[i] = "/"}
    IN  IF at = {} THEN 0 ELSE CHOOSE i \in at : \A j \in at : j <= i

\* JSZip's parentFolder(path): the path up to the last "/" that is neither
\* its first nor its trailing character, or the empty string.
ParentFolder(path) ==
    LET p == IF EndsWith(path, Slash) THEN SubSeq(path, 1, Len(path) - 1)
             ELSE path
    IN  IF LastSlash(p) > 1 THEN SubSeq(p, 1, LastSlash(p) - 1) ELSE <<>>

RECURSIVE FileAdd(_, _, _, _)
\* JSZip's fileAdd(name, data, {dir, createFolders}); folderAdd adds the
\* folder entry, and its parents first, unless the key exists.
FileAdd(files, name, dir, createFolders) ==
    LET key == IF dir THEN ForceTrailingSlash(name) ELSE name
        parent == ParentFolder(key)
        withParents ==
            IF createFolders /\ parent # <<>>
               /\ ForceTrailingSlash(parent) \notin ZipKeys(files)
            THEN FileAdd(files, ForceTrailingSlash(parent), TRUE, TRUE)
            ELSE files
    IN  SetKey(withParents, [name |-> key, dir |-> dir])

\* zip.file(name, data): createFolders is on by default.
ZipFile(files, name) == FileAdd(files, name, FALSE, TRUE)

\* The dir flag loadAsync gives an entry of the archive: its directory
\* attribute, or a name that ends with "/".
LoadedDir(entry) == entry.dir \/ EndsWith(entry.name, Slash)

RECURSIVE LoadEntries(_, _)
\* zip.loadAsync(buffer): every entry of the archive is added in order,
\* without creating folders.
LoadEntries(files, entries) ==
    IF entries = <<>> THEN files
    ELSE LoadEntries(FileAdd(files, Head(entries).name,
                             LoadedDir(Head(entries)), FALSE),
                     Tail(entries))

LoadAsync(entries) == LoadEntries(<<>>, entries)

\* zip.file(name) as a lookup: a file entry of that exact name exists.
HasFile(files, name) ==
    \E i \in 1..Len(files) : files[i].name = name /\ ~files[i].dir

(***************************************************************************)
(* getLibVersion and the resolution of libs                                *)
(***************************************************************************)

\* The tokens that match \d+.
Numbers == {"0", "1", "2", "5", "8", "11", "12", "13"}

\* versionPart.match(/^\d+\.\d+$/)
IsVersion(v) ==
    Len(v) = 3 /\ v[1] \in Numbers /\ v[2] = "." /\ v[3] \in Numbers

\* Array.prototype.find, given the places at which the test holds: the
\* first of them, 0 when it holds nowhere.
FirstIndex(at) ==
    IF at = {} THEN 0 ELSE CHOOSE i \in at : \A j \in at : i <= j

\* foundFolder.split('/')[0]
FolderName(path) ==
    LET k == FirstIndex({i \in 1..Len(path) : path[i] = "/"})
    IN  IF k = 0 THEN path ELSE SubSeq(path, 1, k - 1)

\* folderName.replace(prefix, '') for a folderName that starts with prefix
StripPrefix(s, prefix) == SubSeq(s, Len(prefix) + 1, Len(s))

getLibVersion(files, ds, machineName, defaultVersion) ==
    LET dep == FirstIndex({i \in 1..Len(ds) :
                               ds[i].machineName = machineName})
        prefix == <<machineName, "-">>
        foundFolder ==
            FirstIndex({i \in 1..Len(files) :
                            /\ StartsWith(files[i].name, prefix)
                            /\ Includes(files[i].name, "/")})
        versionPart ==
            IF foundFolder = 0 THEN <<>>
            ELSE StripPrefix(FolderName(files[foundFolder].name), prefix)
    IN  IF dep # 0
        THEN LibString(ds[dep].machineName, ds[dep].majorVersion,
                       ds[dep].minorVersion)
        ELSE IF foundFolder # 0 /\ IsVersion(versionPart)
        THEN <<machineName, " ">> \o versionPart
        ELSE <<machineName, " ">> \o defaultVersion

\* const textLib = ...
TextLib(files, ds) ==
    LET advancedTextFound == getLibVersion(files, ds, "H5P.AdvancedText", <<>>)
    IN  IF advancedTextFound # <<>>
           /\ ~Includes(advancedTextFound, "undefined")
        THEN advancedTextFound
        ELSE getLibVersion(files, ds, "H5P.Text", <<"1", ".", "0">>)

\* const libs: LibraryVersions = { ... }
ResolveLibraries(files, ds) ==
    [column       |-> getLibVersion(files, ds, "H5P.Column", <<"1", ".", "13">>),
     text         |-> TextLib(files, ds),
     isAdvancedText |-> StartsWith(TextLib(files, ds), <<"H5P.AdvancedText">>),
     accordion    |-> getLibVersion(files, ds, "H5P.Accordion", <<"1", ".", "0">>),
     singleChoice |-> getLibVersion(files, ds, "H5P.SingleChoiceSet",
                                    <<"1", ".", "11">>),
     image        |-> getLibVersion(files, ds, "H5P.Image", <<"1", ".", "1">>),
     video        |-> getLibVersion(files, ds, "H5P.Video", <<"1", ".", "5">>),
     blanks       |-> getLibVersion(files, ds, "H5P.Blanks", <<"1", ".", "12">>),
     dragText     |-> getLibVersion(files, ds, "H5P.DragText", <<"1", ".", "8">>)]

(***************************************************************************)
(* buildH5P, step by step                                                  *)
(***************************************************************************)

H5pJsonPath == <<"h5p.json">>

ContentJsonPath == <<"content", "/", "content.json">>

MissingImageZipPath == <<"content", "/", "images", "/", "missing.jpg">>

ContentRoot == <<"content", "/">>

\* catch (error) { throw error }: the build ends with the error.
Throw(e) ==
    /\ pc' = "failed"
    /\ error' = e

\* 1. Parse Markdown: the loop over the lines and the final push.
SplitMarkdown ==
    /\ pc = "start"
    /\ chaptersData' = SplitChapters(lines)
    /\ pc' = "checkChapters"
    /\ UNCHANGED <<lines, template, zipFiles, deps, libs, contentJson, tasks,
                   saved, error, callVars, uiVars>>

\* if (chaptersData.length === 0) throw
ThrowNoChapters ==
    /\ pc = "checkChapters"
    /\ chaptersData = <<>>
    /\ Throw(NoChaptersError)
    /\ UNCHANGED <<lines, chaptersData, template, zipFiles, deps, libs,
                   contentJson, tasks, saved, callVars, uiVars>>

\* 2. Load Zip: loadAsync rejects a buffer that is no archive.
LoadZip ==
    /\ pc = "checkChapters"
    /\ chaptersData # <<>>
    /\ IF template.corrupt
       THEN Throw("Corrupt zip") /\ UNCHANGED zipFiles
       ELSE /\ zipFiles' = LoadAsync(template.entries)
            /\ pc' = "manifest"
            /\ UNCHANGED error
    /\ UNCHANGED <<lines, chaptersData, template, deps, libs, contentJson,
                   tasks, saved, callVars, uiVars>>

\* 3. Parse h5p.json: zip.file("h5p.json")! is null without the file, and
\* JSON.parse throws on text that is no JSON.
ParseManifest ==
    /\ pc = "manifest"
    /\ IF ~HasFile(zipFiles, H5pJsonPath)
       THEN Throw("TypeError: null has no property async") /\ UNCHANGED deps
       ELSE IF ~template.manifest.parseable
       THEN Throw("SyntaxError: JSON.parse") /\ UNCHANGED deps
       ELSE /\ deps' = template.manifest.preloadedDependencies
            /\ pc' = "resolve"
            /\ UNCHANGED error
    /\ UNCHANGED <<lines, chaptersData, template, zipFiles, libs, contentJson,
                   tasks, saved, callVars, uiVars>>

\* 4. Resolve versions
ResolveLibs ==
    /\ pc = "resolve"
    /\ libs' = ResolveLibraries(zipFiles, deps)
    /\ pc' = "content"
    /\ UNCHANGED <<lines, chaptersData, template, zipFiles, deps, contentJson,
                   tasks, saved, error, callVars, uiVars>>

\* The number of awaits createChapterStructure passes before it returns:
\* one per text block, per accordion block and per fallback, and one for
\* the placeholder of an empty chapter.
RECURSIVE Awaits(_, _)
Awaits(segments, lv) ==
    IF segments = <<>> THEN 0
    ELSE (IF Head(segments).type \in {"text", "accordion"}
             \/ BuildSegment(Head(segments), lv) = NullObject
          THEN 1 ELSE 0) + Awaits(Tail(segments), lv)

ChapterAwaits(markdownContent, lv) ==
    LET segments == ParseChapterSegments(markdownContent)
    IN  IF ContentWrappers(segments, lv) = <<>> THEN 1
        ELSE Awaits(segments, lv)

\* The promise of createChapterStructure(ch.title, ch.content, libs) once
\* the call has run to its first await, or to its end.
StartTask(ch, lv) ==
    LET n == ChapterAwaits(ch.content, lv)
    IN  [remaining |-> n,
         settled |-> 0,
         value |-> IF n = 0
                   THEN createChapterStructure(ch.title, ch.content, lv)
                   ELSE NullObject]

\* The promises chaptersData.map returns: the calls run one after the other,
\* each to its first await or to its end; settled is the place of a promise
\* in the order in which the promises fulfil, 0 while it is pending.
StartTasks(cd, lv) ==
    [i \in 1..Len(cd) |->
        LET t == StartTask(cd[i], lv)
        IN  IF t.remaining > 0 THEN t
            ELSE [t EXCEPT !.settled =
                    Cardinality({j \in 1..i :
                                   ChapterAwaits(cd[j].content, lv) = 0})]]

\* 5. Generate Content: the existing content.json is read (an empty
\* document when it is missing or no JSON), and chaptersData.map starts
\* one createChapterStructure call per chapter.
ReadContent ==
    /\ pc = "content"
    /\ contentJson' =
          IF HasFile(zipFiles, ContentJsonPath) /\ template.content.parseable
          THEN [chapters |-> template.content.chapters,
                settings |-> template.content.settings]
          ELSE [chapters |-> <<>>, settings |-> None]
    /\ tasks' = StartTasks(chaptersData, libs)
    /\ pc' = "build"
    /\ UNCHANGED <<lines, chaptersData, template, zipFiles, deps, libs,
                   saved, error, callVars, uiVars>>

\* One suspended createChapterStructure call resumes after an await and
\* runs to its next await, or to its return.
ResumeTask(i) ==
    /\ pc = "build"
    /\ i \in 1..Len(tasks)
    /\ tasks[i].remaining > 0
    /\ tasks' = [tasks EXCEPT ![i] =
          [remaining |-> @.remaining - 1,
           settled |-> IF @.remaining = 1
                       THEN Cardinality({j \in 1..Len(tasks) :
                                           tasks[j].remaining = 0}) + 1
                       ELSE 0,
           value |-> IF @.remaining = 1
                     THEN createChapterStructure(chaptersData[i].title,
                                                 chaptersData[i].content, libs)
                     ELSE NullObject]]
    /\ UNCHANGED <<pc, lines, chaptersData, template, zipFiles, deps, libs,
                   contentJson, saved, error, callVars, uiVars>>

\* Faulty variant of PromiseAll: the values in the order in which the
\* promises fulfilled.
PromiseAllBySettlement(ts) ==
    [k \in 1..Len(ts) |->
        (LET i == CHOOSE j \in 1..Len(ts) : ts[j].settled = k
         IN  ts[i].value)]

\* Promise.all resolves with the values in the order of the promises.
PromiseAll(ts) == [i \in 1..Len(ts) |-> ts[i].value]

AllChaptersBuilt ==
    /\ pc = "build"
    /\ \A i \in 1..Len(tasks) : tasks[i].remaining = 0
    /\ contentJson' = [contentJson EXCEPT
          !.chapters = PromiseAll(tasks)]
    /\ pc' = "inject"
    /\ UNCHANGED <<lines, chaptersData, template, zipFiles, deps, libs,
                   tasks, saved, error, callVars, uiVars>>

\* Whether a content object is an image object (its file.path is the
\* placeholder path).
IsImageObject(obj) == obj.metadata.contentType = <<"Image">>

\* contentJsonString.includes("images/missing.jpg"): the path occurs in the
\* serialized document through an image object, a chapter title or the
\* template's own settings.
MentionsMissingImage(doc) ==
    \/ doc.settings = MissingImagePath
    \/ \E i \in 1..Len(doc.chapters) :
          \/ Includes(doc.chapters[i].metadata.title, MissingImagePath)
          \/ \E k \in 1..Len(doc.chapters[i].params.content) :
                IsImageObject(doc.chapters[i].params.content[k].content)

\* 6. Inject into Zip: content.json, and the dummy image when the document
\* mentions its path.
InjectedFiles(files, doc) ==
    LET withContent == ZipFile(files, ContentJsonPath)
    IN  IF MentionsMissingImage(doc)
        THEN ZipFile(withContent, MissingImageZipPath)
        ELSE withContent

InjectContent ==
    /\ pc = "inject"
    /\ zipFiles' = InjectedFiles(zipFiles, contentJson)
    /\ pc' = "repair"
    /\ UNCHANGED <<lines, chaptersData, template, deps, libs, contentJson,
                   tasks, saved, error, callVars, uiVars>>

\* The test of the second pass of the Moodle fix.
IsContentFolderEntry(e) ==
    StartsWith(e.name, ContentRoot) /\ EndsWith(e.name, Slash) /\ e.dir

\* Faulty variant of RepairFolders: zip.remove("content/"), which removes the
\* folder and everything below it.
RepairFoldersRecursive(files) ==
    SelectSeq(files, LAMBDA e : ~StartsWith(e.name, ContentRoot))

\* The Moodle fix: delete zip.files["content/"], then every key that starts
\* with "content/", ends with "/" and is marked as a directory.
RepairFolders(files) ==
    SelectSeq(DeleteKey(files, ContentRoot),
              LAMBDA e : ~IsContentFolderEntry(e))

RepairZip ==
    /\ pc = "repair"
    /\ zipFiles' = RepairFolders(zipFiles)
    /\ pc' = "generate"
    /\ UNCHANGED <<lines, chaptersData, template, deps, libs, contentJson,
                   tasks, saved, error, callVars, uiVars>>

\* 7. Save: zip.generateAsync
GenerateBlob ==
    /\ pc = "generate"
    /\ pc' = "save"
    /\ UNCHANGED <<lines, chaptersData, template, zipFiles, deps, libs,
                   contentJson, tasks, saved, error, callVars, uiVars>>

\* zip.generateAsync rejects (an entry of the template whose stored data
\* cannot be read back): the catch block rethrows.
GenerateFails ==
    /\ pc = "generate"
    /\ Throw("generateAsync rejected")
    /\ UNCHANGED <<lines, chaptersData, template, zipFiles, deps, libs,
                   contentJson, tasks, saved, callVars, uiVars>>

\* Faulty variant of SaveFile: the save also runs after a failure, as from
\* a finally block.
SaveFileInFinally ==
    /\ pc \in {"save", "failed"}
    /\ saved = 0
    /\ saved' = saved + 1
    /\ pc' = "done"
    /\ UNCHANGED <<lines, chaptersData, template, zipFiles, deps, libs,
                   contentJson, tasks, error, callVars, uiVars>>

\* window.electronAPI.saveFile or saveAs
SaveFile ==
    /\ pc = "save"
    /\ saved' = saved + 1
    /\ pc' = "done"
    /\ UNCHANGED <<lines, chaptersData, template, zipFiles, deps, libs,
                   contentJson, tasks, error, callVars, uiVars>>

(***************************************************************************)
(* Inputs                                                                  *)
(***************************************************************************)

Dep(machineName, major, minor) ==
    [machineName |-> machineName, majorVersion |-> major,
     minorVersion |-> minor]

FileEntry(name) == [name |-> name, dir |-> FALSE]

DirEntry(name) == [name |-> name, dir |-> TRUE]

\* A manifest as h5p.json parses; a manifest without preloadedDependencies
\* has the empty list (deps = h5pManifest.preloadedDependencies || []).
Manifest(ds) ==
    [parseable |-> TRUE, mainLibrary |-> <<"H5P.InteractiveBook">>,
     preloadedDependencies |-> ds]

BadManifest ==
    [parseable |-> FALSE, mainLibrary |-> <<>>, preloadedDependencies |-> <<>>]

\* content/content.json of a template, as it parses.
TemplateContent ==
    [parseable |-> TRUE, chapters |-> <<>>, settings |-> "showCoverPage"]

BadContent == [parseable |-> FALSE, chapters |-> <<>>, settings |-> None]

AllDeps ==
    << Dep("H5P.InteractiveBook", "1", "2"), Dep("H5P.Column", "1", "13"),
       Dep("H5P.AdvancedText", "1", "1"), Dep("H5P.Accordion", "1", "0"),
       Dep("H5P.SingleChoiceSet", "1", "11"), Dep("H5P.Image", "1", "1"),
       Dep("H5P.Video", "1", "5"), Dep("H5P.Blanks", "1", "12"),
       Dep("H5P.DragText", "1", "8") >>

\* A complete Interactive Book template.
FullTemplate ==
    [corrupt |-> FALSE,
     entries |-> << FileEntry(H5pJsonPath),
                    DirEntry(ContentRoot),
                    FileEntry(ContentJsonPath),
                    DirEntry(<<"content", "/", "images", "/">>),
                    FileEntry(<<"content", "/", "images", "/", "cover.png">>),
                    DirEntry(<<"H5P.Accordion", "-", "1", ".", "0", "/">>),
                    FileEntry(<<"H5P.Accordion", "-", "1", ".", "0", "/",
                                "library.json">>) >>,
     manifest |-> Manifest(AllDeps),
     content |-> TemplateContent]

\* One whose manifest lists the main library only, with folders for two
\* libraries and no content.json.
SparseTemplate ==
    [corrupt |-> FALSE,
     entries |-> << FileEntry(H5pJsonPath),
                    FileEntry(<<"H5P.Text", "-", "1", ".", "1", "/",
                                "library.json">>),
                    FileEntry(<<"H5P.Image", "-", "1", ".", "1", "/",
                                "library.json">>) >>,
     manifest |-> Manifest(<< Dep("H5P.InteractiveBook", "1", "2") >>),
     content |-> BadContent]

\* A buffer that is no archive.
CorruptTemplate == [NoTemplate EXCEPT !.corrupt = TRUE]

\* An archive without h5p.json.
NoManifestTemplate ==
    [FullTemplate EXCEPT !.entries = Tail(@), !.manifest = BadManifest]

\* An archive whose h5p.json is no JSON and whose content.json is no JSON.
BadJsonTemplate ==
    [FullTemplate EXCEPT !.manifest = BadManifest, !.content = BadContent]

Templates ==
    {FullTemplate, SparseTemplate, CorruptTemplate, NoManifestTemplate,
     BadJsonTemplate}

\* The lines a document is drawn from.
DocLinePool ==
    { <<"#", " ", "A">>, <<" ", "#", " ", "B">>, <<>>, <<"x">>,
      <<"![a](p.jpg)">> }

\* The longest document, in lines.
MaxDocLines == 3

\* text.split('\n') of a document: at least one line.
Docs == {d \in SeqsUpTo(DocLinePool, MaxDocLines) : Len(d) >= 1}

\* buildH5P(markdownFile, templateBuffer) is called.
Init ==
    /\ pc = "start"
    /\ lines \in Docs
    /\ template \in Templates
    /\ chaptersData = <<>>
    /\ zipFiles = <<>>
    /\ deps = <<>>
    /\ libs = LibsNull
    /\ contentJson = NoContent
    /\ tasks = <<>>
    /\ saved = 0
    /\ error = None
    /\ call = NoCall
    /\ result = NoResult
    /\ UiIdle

Next ==
    \/ SplitMarkdown
    \/ ThrowNoChapters
    \/ LoadZip
    \/ ParseManifest
    \/ ResolveLibs
    \/ ReadContent
    \/ \E i \in 1..Len(tasks) : ResumeTask(i)
    \/ AllChaptersBuilt
    \/ InjectContent
    \/ RepairZip
    \/ GenerateBlob
    \/ GenerateFails
    \/ SaveFile

Spec == Init /\ [][Next]_vars

(***************************************************************************)
(* Chapter splitting on its own                                            *)
(***************************************************************************)

\* The lines a document is drawn from when only the splitting runs.
SplitLinePool ==
    { <<"#", " ", "A">>, <<" ", "#", " ", "B">>, <<"#", " ">>, <<>>, <<" ">>,
      <<"x">>, <<"y">> }

\* The longest such document, in lines.
MaxSplitLines == 4

InitSplit ==
    /\ pc = "start"
    /\ lines \in {d \in SeqsUpTo(SplitLinePool, MaxSplitLines) : Len(d) >= 1}
    /\ template = FullTemplate
    /\ chaptersData = <<>>
    /\ zipFiles = <<>>
    /\ deps = <<>>
    /\ libs = LibsNull
    /\ contentJson = NoContent
    /\ tasks = <<>>
    /\ saved = 0
    /\ error = None
    /\ call = NoCall
    /\ result = NoResult
    /\ UiIdle

NextSplit == SplitMarkdown \/ ThrowNoChapters

SpecSplit == InitSplit /\ [][NextSplit]_vars

\* The splitting has run.
SplitDone == pc # "start"

HasHeading(ls) == \E i \in 1..Len(ls) : IsHeading(ls[i])

\* The lines of the emitted chapters' bodies, one body after the other.
EmittedBodyLines ==
    Flatten([i \in 1..Len(chaptersData) |->
                SplitLines(chaptersData[i].content)])

\* The document's lines that are no heading, in order.
NonHeadingLines(ls) == SelectSeq(ls, LAMBDA l : ~IsHeading(l))

\* C8 as stated: for every input with at least one level-1 heading line,
\* the bodies of the emitted chapters, concatenated in order, are exactly
\* the input's non-heading lines in original order.
C8_AsStated ==
    (SplitDone /\ HasHeading(lines)) =>
        EmittedBodyLines = NonHeadingLines(lines)

\* The non-heading lines, with one empty line for every heading that is
\* directly followed by another heading.
NonHeadingLinesWithEmptyBodies(ls) ==
    Flatten([i \in 1..Len(ls) |->
                IF ~IsHeading(ls[i]) THEN << ls[i] >>
                ELSE IF i < Len(ls) /\ IsHeading(ls[i + 1]) THEN << <<>> >>
                ELSE <<>>])

\* C8, amended: for every input with at least one level-1 heading line, the
\* bodies of the emitted chapters, concatenated in order, are the input's
\* non-heading lines in original order, none lost and none duplicated,
\* except that a chapter whose heading is directly followed by the next
\* heading has the empty string as its body, which reads as one empty line.
C8_BodiesPreserved ==
    (SplitDone /\ HasHeading(lines)) =>
        EmittedBodyLines = NonHeadingLinesWithEmptyBodies(lines)

\* C8 witness: a document with lines before its first heading, two headings
\* in a row and a body line after them has been split.
C8_Witness ==
    /\ pc = "checkChapters"
    /\ Len(lines) = 4
    /\ ~IsHeading(lines[1]) /\ Trim(lines[1]) # <<>>
    /\ IsHeading(lines[2]) /\ IsHeading(lines[3])
    /\ ~IsHeading(lines[4]) /\ Trim(lines[4]) # <<>>
    /\ Len(chaptersData) = 3

(***************************************************************************)
(* Library resolution on its own                                           *)
(***************************************************************************)

\* The archive entries, besides h5p.json, a template is drawn from.
LibEntryPool ==
    { FileEntry(<<"H5P.Accordion", "-", "1", ".", "1", "/", "library.json">>),
      FileEntry(<<"H5P.Accordion", "-", "dev", "/", "readme.txt">>),
      DirEntry(<<"H5P.AdvancedText", "-", "1", ".", "2", "/">>),
      FileEntry(<<"H5P.Text", "-", "1", ".", "3", "/", "library.json">>),
      FileEntry(<<"H5P.Image", "-", "2", ".", "0">>),
      FileEntry(<<"H5P.Video", "-", "1", ".", "5", "/", "library.json">>) }

\* The most entries, besides h5p.json, of such a template.
MaxLibEntries == 3

MainDep == Dep("H5P.InteractiveBook", "1", "2")

\* The dependency lists a manifest is drawn from; the fourth declares a
\* library without its version fields.
LibManifests ==
    { << MainDep >>,
      << MainDep, Dep("H5P.Accordion", "1", "0") >>,
      << MainDep, Dep("H5P.AdvancedText", "1", "1"), Dep("H5P.Text", "1", "0") >>,
      << MainDep, Dep("H5P.Text", "1", "1") >>,
      << MainDep, Dep("H5P.AdvancedText", "undefined", "undefined"),
         Dep("H5P.Text", "1", "1") >>,
      AllDeps }

\* The sequences of distinct elements of set, of length 0..n.
DistinctSeqs(set, n) ==
    {s \in SeqsUpTo(set, n) : \A i, j \in 1..Len(s) : s[i] = s[j] => i = j}

\* buildH5P has loaded the archive and parsed its manifest.
InitLib ==
    /\ pc = "resolve"
    /\ lines = << <<"#", " ", "A">>, <<"x">> >>
    /\ chaptersData = SplitChapters(lines)
    /\ \E es \in DistinctSeqs(LibEntryPool, MaxLibEntries), ds \in LibManifests :
          /\ template = [corrupt |-> FALSE,
                         entries |-> <<FileEntry(H5pJsonPath)>> \o es,
                         manifest |-> Manifest(ds),
                         content |-> BadContent]
          /\ zipFiles = LoadAsync(template.entries)
          /\ deps = ds
    /\ libs = LibsNull
    /\ contentJson = NoContent
    /\ tasks = <<>>
    /\ saved = 0
    /\ error = None
    /\ call = NoCall
    /\ result = NoResult
    /\ UiIdle

NextLib == ResolveLibs

SpecLib == InitLib /\ [][NextLib]_vars

\* libs has been resolved.
LibsResolved == pc \notin {"start", "checkChapters", "manifest", "resolve", "failed"}

\* The content types with a builder of their own: the libs field, the
\* machine name.
ContentTypes ==
    { [field |-> "accordion",    name |-> "H5P.Accordion"],
      [field |-> "singleChoice", name |-> "H5P.SingleChoiceSet"],
      [field |-> "image",        name |-> "H5P.Image"],
      [field |-> "video",        name |-> "H5P.Video"],
      [field |-> "blanks",       name |-> "H5P.Blanks"],
      [field |-> "dragText",     name |-> "H5P.DragText"] }

ColumnType == [field |-> "column", name |-> "H5P.Column"]

\* The manifest's dependency list has an entry with the exact machine name.
Declared(name) == \E i \in 1..Len(deps) : deps[i].machineName = name

\* The versions v such that the archive has an entry under a folder
\* "<name>-<v>/" with v of the form <major>.<minor>.
FolderVersions(name) ==
    { SubSeq(zipFiles[i].name, 3, 5) : i \in
        { k \in 1..Len(zipFiles) :
            /\ Len(zipFiles[k].name) >= 6
            /\ zipFiles[k].name[1] = name
            /\ zipFiles[k].name[2] = "-"
            /\ zipFiles[k].name[3] \in Numbers
            /\ zipFiles[k].name[4] = "."
            /\ zipFiles[k].name[5] \in Numbers
            /\ zipFiles[k].name[6] = "/" } }

\* C3 as stated: a content type that is neither declared in the manifest
\* nor present as a "<name>-<major>.<minor>/" folder resolves to the
\* unavailable marker (the value its builder refuses).
C3_AsStated ==
    LibsResolved =>
        \A t \in ContentTypes :
            (~Declared(t.name) /\ FolderVersions(t.name) = {}) =>
                LibMissing(libs[t.field])

\* C4 as stated: a type the manifest declares resolves to
\* "<name> <major>.<minor>" of that entry, whatever folders exist; a type
\* the manifest lacks, with an entry under a folder
\* "<name>-<major>.<minor>/", resolves to the same form built from a
\* folder's version.
C4_AsStated ==
    LibsResolved =>
        \A t \in ContentTypes \cup {ColumnType} :
            /\ Declared(t.name) =>
                  \E i \in 1..Len(deps) :
                      /\ deps[i].machineName = t.name
                      /\ libs[t.field] = <<t.name, " ", deps[i].majorVersion,
                                           ".", deps[i].minorVersion>>
            /\ (~Declared(t.name) /\ FolderVersions(t.name) # {}) =>
                  \E v \in FolderVersions(t.name) :
                      libs[t.field] = <<t.name, " ">> \o v

\* The named text variant resolves: the manifest declares it with a
\* version, or a version folder of it exists.
VariantResolves(name) ==
    \/ \E i \in 1..Len(deps) :
          /\ deps[i].machineName = name
          /\ deps[i].majorVersion \in Numbers
          /\ deps[i].minorVersion \in Numbers
    \/ FolderVersions(name) # {}

\* C5 as stated: the text entry is H5P.AdvancedText when that resolves from
\* the manifest or a folder, and otherwise H5P.Text resolved the same way;
\* isAdvancedText is true exactly when the advanced variant resolved.
C5_AsStated ==
    LibsResolved =>
        /\ VariantResolves("H5P.AdvancedText") =>
              StartsWith(libs.text, <<"H5P.AdvancedText", " ">>)
        /\ ~VariantResolves("H5P.AdvancedText") =>
              StartsWith(libs.text, <<"H5P.Text", " ">>)
        /\ libs.isAdvancedText <=> VariantResolves("H5P.AdvancedText")

(***************************************************************************)
(* Injection and directory-entry repair on their own                       *)
(***************************************************************************)

\* The entries, besides h5p.json, a template archive is drawn from, in
\* archive order.  Some directories carry the directory attribute, one is a
\* directory by its trailing "/" alone, one by its attribute alone.
ZipEntryPool ==
    << DirEntry(ContentRoot),
       FileEntry(ContentJsonPath),
       FileEntry(<<"content", "/", "images", "/">>),
       FileEntry(<<"content", "/", "images", "/", "cover.png">>),
       FileEntry(MissingImageZipPath),
       DirEntry(<<"content", "/", "audio">>),
       DirEntry(<<"contentx", "/">>),
       FileEntry(<<"contentx", "/", "a.txt">>),
       DirEntry(<<"H5P.Accordion", "-", "1", ".", "0", "/">>) >>

\* The elements of the sequence at the places idx, in order.
PickSeq(pool, idx) ==
    LET at == SelectSeqIdx(Len(pool), idx)
    IN  [k \in 1..Len(at) |-> pool[at[k]]]

\* Documents with and without an image block, and one whose title holds
\* the placeholder path.
ZipDocs ==
    { << <<"#", " ", "A">>, <<"x">> >>,
      << <<"#", " ", "A">>, <<"![a](p.jpg)">> >>,
      << <<"#", " ", "images/missing.jpg">>, <<"x">> >> }

\* The chapters Promise.all resolved with.
BuiltChapters(cd, lv) ==
    [i \in 1..Len(cd) |-> createChapterStructure(cd[i].title, cd[i].content, lv)]

\* buildH5P has built all chapters.
InitZip ==
    /\ pc = "inject"
    /\ lines \in ZipDocs
    /\ chaptersData = SplitChapters(lines)
    /\ \E idx \in SUBSET (1..Len(ZipEntryPool)) :
          template = [corrupt |-> FALSE,
                      entries |-> <<FileEntry(H5pJsonPath)>>
                                  \o PickSeq(ZipEntryPool, idx),
                      manifest |-> Manifest(AllDeps),
                      content |-> TemplateContent]
    /\ zipFiles = LoadAsync(template.entries)
    /\ deps = AllDeps
    /\ libs = ResolveLibraries(zipFiles, deps)
    /\ tasks = [i \in 1..Len(chaptersData) |->
                  [remaining |-> 0,
                   settled |-> i,
                   value |-> createChapterStructure(chaptersData[i].title,
                                                    chaptersData[i].content,
                                                    libs)]]
    /\ contentJson = [chapters |-> BuiltChapters(chaptersData, libs),
                      settings |-> TemplateContent.settings]
    /\ saved = 0
    /\ error = None
    /\ call = NoCall
    /\ result = NoResult
    /\ UiIdle

NextZip == InjectContent \/ RepairZip \/ GenerateBlob

SpecZip == InitZip /\ [][NextZip]_vars

\* The archive has an entry whose path starts with "content/" and ends
\* with "/".
HasContentFolderEntry(files) ==
    \E i \in 1..Len(files) :
        /\ StartsWith(files[i].name, <<"content", "/">>)
        /\ EndsWith(files[i].name, <<"/">>)

\* Every file entry under "content/" and every entry outside "content/" of
\* the archive before is an entry of the archive after.
EntriesKept(before, after) ==
    \A i \in 1..Len(before) :
        (~StartsWith(before[i].name, <<"content", "/">>)
         \/ ~EndsWith(before[i].name, <<"/">>)) =>
            \E j \in 1..Len(after) : after[j] = before[i]

\* C1: the archive handed to serialization has no entry whose path starts
\* with "content/" and ends with "/", the folder entries the content.json
\* and placeholder-image writes created included; the repair keeps every
\* file entry under "content/" at its path and every entry outside
\* "content/".
C1_Repair ==
    /\ [](pc \in {"generate", "save", "done"} =>
            ~HasContentFolderEntry(zipFiles))
    /\ [][pc = "repair" => EntriesKept(zipFiles, zipFiles')]_vars

\* C1 witness: the repair has run on an archive that came with a
\* "content/" entry, a file below "content/images/", a folder outside
\* "content/", and in which the placeholder image was written.
C1_Witness ==
    /\ pc = "generate"
    /\ DirEntry(<<"content", "/">>) \in Range(template.entries)
    /\ FileEntry(<<"content", "/", "images", "/">>) \in Range(template.entries)
    /\ DirEntry(<<"content", "/", "audio">>) \in Range(template.entries)
    /\ FileEntry(<<"content", "/", "images", "/", "cover.png">>) \in Range(zipFiles)
    /\ FileEntry(<<"content", "/", "images", "/", "missing.jpg">>) \in Range(zipFiles)
    /\ FileEntry(<<"content", "/", "content.json">>) \in Range(zipFiles)
    /\ DirEntry(<<"contentx", "/">>) \in Range(zipFiles)
    /\ \E i \in 1..Len(contentJson.chapters[1].params.content) :
          IsImageObject(contentJson.chapters[1].params.content[i].content)

(***************************************************************************)
(* Claims about the whole build                                            *)
(***************************************************************************)

\* C9 as stated: an input with no heading line and only blank lines (the
\* empty document included) fails with the no-chapters error, before the
\* archive is loaded and with nothing saved.
C9_AsStated ==
    ((\A i \in 1..Len(lines) : Trim(lines[i]) = <<>>)
     /\ pc \notin {"start", "checkChapters"}) =>
        /\ pc = "failed"
        /\ error = NoChaptersError
        /\ zipFiles = <<>>
        /\ saved = 0

(***************************************************************************)
(* buildAccordionObject called on its own                                  *)
(***************************************************************************)

\* The lines an accordion block is drawn from: markers with and without a
\* title, with and without indentation, and body lines.
AccordionLinePool ==
    { <<"+++", " ", "A">>, <<"+++">>, <<"+++", "+", " ", "B", " ">>,
      <<" ", "+++", " ", "C">>, <<" ", "+++">>, <<"x">>, <<"y", " ">>, <<>> }

\* The longest accordion block, in lines.
MaxAccordionLines == 4

InitAccordion ==
    /\ BuildIdle
    /\ UiIdle
    /\ \E ls \in SeqsUpTo(AccordionLinePool, MaxAccordionLines),
          lv \in {LibsAvailable, LibsNull} :
          call = [fn |-> "buildAccordionObject", lines |-> ls, libs |-> lv]
    /\ result = [stage |-> "called", object |-> NullObject]

BuildAccordion ==
    /\ call.fn = "buildAccordionObject"
    /\ result.stage = "called"
    /\ result' = [stage |-> "built",
                  object |-> buildAccordionObject(call.lines, call.libs)]
    /\ UNCHANGED <<call, buildVars, uiVars>>

NextAccordion == BuildAccordion

SpecAccordion == InitAccordion /\ [][NextAccordion]_vars

\* A call of buildAccordionObject has returned an accordion object.
AccordionBuilt ==
    /\ call.fn = "buildAccordionObject"
    /\ result.stage = "built"
    /\ result.object # NullObject

\* The indices of the block's lines that start, trimmed, with "+++".
MarkerLines(ls) ==
    {i \in 1..Len(ls) : Trim(ls[i]) # <<>> /\ Trim(ls[i])[1] = "+++"}

\* The title text of a marker line: what follows the plus signs, trimmed.
MarkerTitleText(line) ==
    LET afterMarker == Tail(Trim(line))
        k == Cardinality({i \in 1..Len(afterMarker) :
                            \A j \in 1..i : afterMarker[j] = "+"})
    IN  Trim(SubSeq(afterMarker, k + 1, Len(afterMarker)))

\* The lines after the marker at m and before the next marker.
PanelBodyLines(ls, m) ==
    LET later == {p \in MarkerLines(ls) : p > m}
        stop == IF later = {} THEN Len(ls) + 1
                ELSE CHOOSE p \in later : \A q \in later : p <= q
    IN  SubSeq(ls, m + 1, stop - 1)

\* The text object's params.text that a panel body of these lines has.
PanelBodyText(bodyLines) ==
    LET html == processHtmlContent(MarkedParse(JoinLines(bodyLines)))
    IN  IF html # <<>> THEN html ELSE EmptyParagraph

\* C11 as stated: the accordion has one panel per line that starts with
\* "+++", in source order; each panel's body is made of exactly the lines
\* after its own marker and before the next one (so lines before the first
\* marker are in no panel); a panel's title is the text after its marker,
\* and "Panel" when that text is empty.
C11_AsStated ==
    AccordionBuilt =>
        LET ls == call.lines
            markers == SelectSeqIdx(Len(ls), MarkerLines(ls))
            panels == result.object.params.panels
        IN  /\ Len(panels) = Len(markers)
            /\ \A n \in 1..Len(markers) :
                  /\ panels[n].content.params.text =
                        PanelBodyText(PanelBodyLines(ls, markers[n]))
                  /\ panels[n].title =
                        IF MarkerTitleText(ls[markers[n]]) = <<>>
                        THEN <<"Panel">>
                        ELSE MarkerTitleText(ls[markers[n]])


\* The chapter builds have all returned and Promise.all has resolved.
ChaptersAssembled ==
    pc \in {"inject", "repair", "generate", "save", "done"}

\* C12: whatever the interleaving and completion order of the per-chapter
\* builds, the chapters field of the assembled document lists the chapter
\* containers in original chapter order, the i-th built from the i-th
\* chapter's title and body.
C12_ChapterOrder ==
    ChaptersAssembled =>
        /\ Len(contentJson.chapters) = Len(chaptersData)
        /\ \A i \in 1..Len(chaptersData) :
              contentJson.chapters[i] =
                  createChapterStructure(chaptersData[i].title,
                                         chaptersData[i].content, libs)

\* C12 witness: a document of two different chapters was assembled after
\* the second chapter's build had returned before the first one's.
C12_Witness ==
    /\ ChaptersAssembled
    /\ Len(chaptersData) = 2
    /\ tasks[2].settled = 1
    /\ tasks[1].settled = 2
    /\ contentJson.chapters[1] # contentJson.chapters[2]


\* Every stage before the save has left its result: chapters were split,
\* the archive was loaded, the libraries resolved, every chapter built and
\* injected, and the folder entries repaired.
StagesSucceeded ==
    /\ chaptersData # <<>>
    /\ error = None
    /\ HasFile(zipFiles, H5pJsonPath)
    /\ libs = ResolveLibraries(LoadAsync(template.entries), deps)
    /\ \A i \in 1..Len(tasks) : tasks[i].remaining = 0
    /\ Len(contentJson.chapters) = Len(chaptersData)
    /\ HasFile(zipFiles, ContentJsonPath)
    /\ ~HasContentFolderEntry(zipFiles)

\* C13: the save happens at most once, only as the last step after every
\* earlier stage has succeeded; a build that failed carries its error and
\* has saved nothing, then and ever after.
C13_AtomicBuild ==
    /\ [](saved <= 1)
    /\ [](saved = 1 => pc = "done" /\ StagesSucceeded)
    /\ [](pc = "failed" => saved = 0 /\ error # None)
    /\ [][saved' # saved => pc = "save" /\ StagesSucceeded]_vars
    /\ [][pc = "failed" => pc' = "failed" /\ saved' = saved]_vars

\* C13 witness: a build of two chapters has saved its package.
C13_Witness ==
    /\ pc = "done"
    /\ saved = 1
    /\ Len(chaptersData) = 2
    /\ StagesSucceeded

(***************************************************************************)
(* The application: App and FileUpload                                     *)
(***************************************************************************)

\* A template whose manifest names another main library.
OtherMainTemplate ==
    [FullTemplate EXCEPT !.manifest.mainLibrary = <<"H5P.Column">>]

\* What fetch('./template.h5p') can deliver.
AppTemplates ==
    {FullTemplate, CorruptTemplate, NoManifestTemplate, BadJsonTemplate,
     OtherMainTemplate}

\* Faulty variant of validateTemplate: the main library is not looked at.
validateTemplateAnyMain(t) ==
    IF t.corrupt THEN "Corrupt template file"
    ELSE IF ~HasFile(LoadAsync(t.entries), H5pJsonPath)
    THEN "Invalid H5P: h5p.json missing."
    ELSE IF ~t.manifest.parseable THEN "Corrupt template file"
    ELSE None

\* validateTemplate(buffer): the message, or None for null.
validateTemplate(t) ==
    IF t.corrupt THEN "Corrupt template file"
    ELSE IF ~HasFile(LoadAsync(t.entries), H5pJsonPath)
    THEN "Invalid H5P: h5p.json missing."
    ELSE IF ~t.manifest.parseable THEN "Corrupt template file"
    ELSE IF \/ t.manifest.mainLibrary = <<>>
            \/ ~StartsWith(t.manifest.mainLibrary, <<"H5P.InteractiveBook">>)
    THEN "Template is not an Interactive Book."
    ELSE None

\* The files the user can pick or drop.
MdFile ==
    [name |-> <<"a", ".md">>,
     lines |-> << <<"x">>, <<"#", " ", "A">>, <<"x">> >>]

UpperMdFile == [name |-> <<"B", ".MD">>, lines |-> << <<"#", " ", "A">> >>]

TextFile == [name |-> <<"notes", ".txt">>, lines |-> << <<"x">> >>]

UserFiles == {MdFile, UpperMdFile, TextFile}

\* String.prototype.toLowerCase on the tokens of a file name.
ToLowerCase(name) ==
    [i \in 1..Len(name) |->
        CASE name[i] = ".MD" -> ".md"
          [] name[i] = "B"   -> "b"
          [] OTHER           -> name[i]]

\* The most builds the user starts.
MaxBuilds == 2

\* The effect has run to its first await.
InitApp ==
    /\ BuildIdle
    /\ call = NoCall
    /\ result = NoResult
    /\ UiIdle

\* fetch and response.arrayBuffer(): the request fails or is answered with
\* a status that is not ok (catch, finally), or delivers a buffer.
FetchTemplate ==
    /\ app.fetch = "pending"
    /\ \/ app' = [app EXCEPT !.fetch = "done",
                             !.error = "Failed to load template.h5p",
                             !.loadingTemplate = FALSE]
       \/ \E t \in AppTemplates :
             app' = [app EXCEPT !.fetch = "validating", !.fetched = t]
    /\ UNCHANGED <<buildVars, callVars, upload>>

\* validateTemplate has returned: an error is shown and the buffer is not
\* set, or the buffer is set; finally loadingTemplate is cleared.
ValidateFetched ==
    /\ app.fetch = "validating"
    /\ LET valError == validateTemplate(app.fetched)
       IN  app' = IF valError # None
                  THEN [app EXCEPT !.fetch = "done",
                                   !.error = valError,
                                   !.validationMsg = valError,
                                   !.loadingTemplate = FALSE]
                  ELSE [app EXCEPT !.fetch = "done",
                                   !.templateBuffer = app.fetched,
                                   !.loadingTemplate = FALSE]
    /\ UNCHANGED <<buildVars, callVars, upload>>

\* FileUpload's disabled prop.
UploadDisabled == app.templateBuffer = NoTemplate \/ app.isProcessing

\* handleInputChange or handleDrop with a file: validateAndSetFile(file).
SelectFile(file) ==
    /\ ~UploadDisabled
    /\ IF ~EndsWith(ToLowerCase(file.name), <<".md">>)
       THEN /\ upload' = [selectedFile |-> NoFile,
                          error |-> "Please upload a .md (Markdown) file."]
            /\ UNCHANGED app
       ELSE /\ upload' = [selectedFile |-> file, error |-> None]
            /\ app' = [app EXCEPT !.selectedFile = file]
    /\ UNCHANGED <<buildVars, callVars>>

\* A click on the button: handleProcess runs to the call of buildH5P.
HandleProcess ==
    /\ app.selectedFile # NoFile
    /\ app.templateBuffer # NoTemplate
    /\ ~app.isProcessing
    /\ pc = "idle"
    /\ app.started < MaxBuilds
    /\ app' = [app EXCEPT !.isProcessing = TRUE, !.error = None,
                          !.isSuccess = FALSE, !.started = @ + 1]
    /\ pc' = "start"
    /\ lines' = app.selectedFile.lines
    /\ template' = app.templateBuffer
    /\ chaptersData' = <<>>
    /\ zipFiles' = <<>>
    /\ deps' = <<>>
    /\ libs' = LibsNull
    /\ contentJson' = NoContent
    /\ tasks' = <<>>
    /\ error' = None
    /\ UNCHANGED <<saved, callVars, upload>>

\* await buildH5P(...) resumes with success: the success flag is set and
\* the 5-second timer is started.
BuildResolved ==
    /\ pc = "done"
    /\ app.isProcessing
    /\ app' = [app EXCEPT !.isSuccess = TRUE, !.timers = @ + 1,
                          !.isProcessing = FALSE]
    /\ pc' = "idle"
    /\ UNCHANGED <<lines, chaptersData, template, zipFiles, deps, libs,
                   contentJson, tasks, saved, error, callVars, upload>>

\* await buildH5P(...) resumes with the error buildH5P threw.
BuildRejected ==
    /\ pc = "failed"
    /\ app.isProcessing
    /\ app' = [app EXCEPT !.error = error, !.isProcessing = FALSE]
    /\ pc' = "idle"
    /\ UNCHANGED <<lines, chaptersData, template, zipFiles, deps, libs,
                   contentJson, tasks, saved, error, callVars, upload>>

\* A 5-second timer of an earlier success expires.
TimerFires ==
    /\ app.timers > 0
    /\ app' = [app EXCEPT !.isSuccess = FALSE, !.selectedFile = NoFile,
                          !.timers = @ - 1]
    /\ UNCHANGED <<buildVars, callVars, upload>>

NextApp ==
    \/ FetchTemplate
    \/ ValidateFetched
    \/ \E file \in UserFiles : SelectFile(file)
    \/ HandleProcess
    \/ Next
    \/ BuildResolved
    \/ BuildRejected
    \/ TimerFires

SpecApp == InitApp /\ [][NextApp]_vars

\* The template is an archive with an h5p.json that parses and names a main
\* library starting with "H5P.InteractiveBook".
ValidTemplate(t) ==
    /\ ~t.corrupt
    /\ FileEntry(H5pJsonPath) \in Range(t.entries)
    /\ t.manifest.parseable
    /\ t.manifest.mainLibrary # <<>>
    /\ t.manifest.mainLibrary[1] = "H5P.InteractiveBook"

\* C14: a build runs only on the fetched template, and only when that
\* template is valid; the template buffer is set only to a valid fetched
\* template; once validation has reported a missing manifest, another main
\* library or a corrupt archive, the message stays, the buffer is not set
\* and no build has started or starts.
C14_ValidatedFirst ==
    /\ pc # "idle" =>
          /\ template = app.templateBuffer
          /\ ValidTemplate(template)
    /\ app.templateBuffer # NoTemplate =>
          /\ app.templateBuffer = app.fetched
          /\ ValidTemplate(app.fetched)
    /\ (app.fetch = "done" /\ ~ValidTemplate(app.fetched)) =>
          /\ app.error # None
          /\ app.fetched # NoTemplate => app.validationMsg # None
          /\ app.templateBuffer = NoTemplate
          /\ pc = "idle"
          /\ app.started = 0
          /\ app.selectedFile = NoFile
          /\ saved = 0

\* C14 witness: a second build runs on a validated template.
C14_Witness ==
    /\ pc = "build"
    /\ app.started = 2
    /\ app.isProcessing
    /\ template = FullTemplate
    /\ app.validationMsg = None

\* C20 as stated: the file the upload component shows as selected is the
\* file the application holds for building, both none or both the same
\* file, whatever selections, builds and timer expiries have happened.
C20_AsStated == upload.selectedFile = app.selectedFile


(***************************************************************************)
(* Further claims about the chapter splitting                              *)
(***************************************************************************)

\* The indices of the document's lines that are not blank.
NonBlankLines(ls) == {i \in 1..Len(ls) : Trim(ls[i]) # <<>>}

\* The document's first non-blank line is a level-1 heading.
StartsWithHeading(ls) ==
    /\ NonBlankLines(ls) # {}
    /\ IsHeading(ls[FirstIndex(NonBlankLines(ls))])

\* C15 as stated: when the document's first non-blank line is a level-1
\* heading, blank lines before it or not, no implicit "Introduction" chapter
\* is emitted and the first chapter carries that heading's title.
C15_AsStated ==
    (SplitDone /\ StartsWithHeading(lines)) =>
        /\ \A i \in 1..Len(chaptersData) :
              chaptersData[i].title # Introduction
        /\ chaptersData # <<>> =>
              chaptersData[1].title =
                  HeadingTitle(lines[FirstIndex(NonBlankLines(lines))])


(***************************************************************************)
(* Further claims about the quiz builder                                   *)
(***************************************************************************)

\* C16 as stated: for every question with two or more '*' lines, the answer
\* at index 0 is the text of the first '*' line in source order.
C16_AsStated ==
    QuizBuilt =>
        LET ls == call.lines
            questions == SelectSeqIdx(Len(ls), MarkedLines(ls, "?"))
            choices == result.object.params.choices
        IN  \A n \in 1..Len(questions) :
               LET stars == QuestionLines(ls, questions[n])
                                \cap MarkedLines(ls, "*")
               IN  Cardinality(stars) >= 2 =>
                     /\ n <= Len(choices)
                     /\ choices[n].answers # <<>>
                     /\ choices[n].answers[1] =
                            MarkedText(ls[FirstIndex(stars)])


(***************************************************************************)
(* Further claims about parseChapterSegments                               *)
(***************************************************************************)

\* The indices of the body's lines that, trimmed, are the [VIDEO] tag.
VideoTagLines(ls) == {i \in 1..Len(ls) : Trim(ls[i]) = <<"[VIDEO]">>}

\* The indices of the blocks of kind video.
VideoBlocks(blocks) == {i \in 1..Len(blocks) : blocks[i].type = "video"}

\* C17 as stated: the number of video blocks emitted equals the number of
\* lines that, trimmed, equal "[VIDEO]", whether or not lines follow the
\* tag, and the k-th video block stands where the k-th tag stands: after
\* the blocks of the lines before the tag.
C17_AsStated ==
    (call.fn = "createChapterStructure"
     /\ result.stage \in {"parsed", "built"}) =>
        LET ls == SplitLines(call.markdownContent)
            tags == SelectSeqIdx(Len(ls), VideoTagLines(ls))
            videos == SelectSeqIdx(Len(result.segments),
                                   VideoBlocks(result.segments))
        IN  /\ Len(videos) = Len(tags)
            /\ \A k \in 1..Len(tags) :
                  SubSeq(result.segments, 1, videos[k] - 1) =
                      ParseChapterSegments(SubSeq(ls, 1, tags[k] - 1))


(***************************************************************************)
(* parseChapterSegments, line by line                                      *)
(***************************************************************************)

\* The lines a body is drawn from when the parser is followed line by line.
ParseLinePool ==
    { <<>>, <<"x">>, <<"[QUIZ]">>, <<"[VIDEO]">>, <<"[ACCORDION]">>,
      <<"[FILL]">>, <<"[DRAG]">>, <<"![a](p.jpg)">>,
      <<" ", "![](dir/q.png)">>, <<"![a](p.jpg)", " ", "x">> }

\* The longest such body, in lines.
MaxParseLines == 3

\* parseChapterSegments(markdown) is called: blocks, currentLines and
\* currentType have their initial values, the loop has all lines before it.
InitParse ==
    /\ BuildIdle
    /\ UiIdle
    /\ \E ls \in SeqsUpTo(ParseLinePool, MaxParseLines) :
          /\ Len(ls) >= 1
          /\ call = [fn |-> "parseChapterSegments", markdown |-> ls]
          /\ result = [stage |-> "loop",
                       st |-> [blocks |-> <<>>, currentType |-> "text",
                               currentLines |-> <<>>],
                       rest |-> SplitLines(ls)]

\* One iteration of the loop over the lines.
ParseNextLine ==
    /\ call.fn = "parseChapterSegments"
    /\ result.stage = "loop"
    /\ result.rest # <<>>
    /\ result' = [result EXCEPT !.st = ParseLine(@, Head(result.rest)),
                                !.rest = Tail(@)]
    /\ UNCHANGED <<call, buildVars, uiVars>>

\* The flush after the loop, and the return.
ParseReturn ==
    /\ call.fn = "parseChapterSegments"
    /\ result.stage = "loop"
    /\ result.rest = <<>>
    /\ result' = [result EXCEPT !.stage = "returned",
                                !.st = Flush(@, "text")]
    /\ UNCHANGED <<call, buildVars, uiVars>>

NextParse == ParseNextLine \/ ParseReturn

SpecParse == InitParse /\ [][NextParse]_vars

\* The loop is about to read an image-syntax line.
AtImageLine ==
    /\ call.fn = "parseChapterSegments"
    /\ result.stage = "loop"
    /\ result.rest # <<>>
    /\ Trim(Head(result.rest)) # <<>>
    /\ Trim(Head(result.rest))[1] \in ImageTokens

\* What the rule for image lines leaves, the image block holding the lines
\* imageLines.
ImageRuleHolds(imageLines) ==
    LET st == result.st
        line == Head(result.rest)
    IN  IF st.currentType = "text"
        THEN /\ result'.st.blocks =
                    (IF \E i \in 1..Len(st.currentLines) :
                            Trim(st.currentLines[i]) # <<>>
                     THEN Append(st.blocks, [type |-> "text",
                                             lines |-> st.currentLines])
                     ELSE st.blocks)
                    \o << [type |-> "image", lines |-> imageLines] >>
             /\ result'.st.currentType = "text"
             /\ result'.st.currentLines = <<>>
        ELSE /\ result'.st.blocks = st.blocks
             /\ result'.st.currentType = st.currentType
             /\ result'.st.currentLines = Append(st.currentLines, line)

\* C18 as stated: an image-syntax line met in kind text flushes the pending
\* text block, emits one image block whose lines are that single line, and
\* leaves kind text with an empty accumulator; met in another kind it emits
\* no block and is appended to the current block's lines.
C18_AsStated ==
    [][AtImageLine => ImageRuleHolds(<< Head(result.rest) >>)]_vars

\* C18, amended: the same, the image block's single line being the line
\* with its leading and trailing whitespace removed.
C18_ImageRule ==
    [][AtImageLine => ImageRuleHolds(<< Trim(Head(result.rest)) >>)]_vars

\* C18 witness: an indented image line was read in kind text, and then an
\* image line inside a quiz block.
C18_Witness ==
    /\ call.fn = "parseChapterSegments"
    /\ result.rest = <<>>
    /\ result.stage = "loop"
    /\ call.markdown =
          << <<" ", "![](dir/q.png)">>, <<"[QUIZ]">>, <<"![a](p.jpg)">> >>
    /\ Len(result.st.blocks) = 1
    /\ result.st.blocks[1].type = "image"
    /\ result.st.currentType = "quiz"
    /\ result.st.currentLines = << <<"![a](p.jpg)">> >>


\* The indices of the document's lines that are level-1 headings.
HeadingLines(ls) == {i \in 1..Len(ls) : IsHeading(ls[i])}

\* An implicit "Introduction" chapter was emitted: the document does not
\* start with a heading and the first chapter has that title.
ImplicitEmitted ==
    /\ ~IsHeading(lines[1])
    /\ chaptersData # <<>>
    /\ chaptersData[1].title = Introduction

\* C19 as stated: every level-1 heading line yields exactly one chapter, in
\* document order, whether or not a body line follows it; the number of
\* chapters is the number of heading lines, plus one when the implicit
\* "Introduction" chapter is emitted; an input with a heading does not fail
\* with the no-chapters error.
C19_AsStated ==
    pc \in {"checkChapters", "failed"} =>
        LET heads == SelectSeqIdx(Len(lines), HeadingLines(lines))
            shift == IF ImplicitEmitted THEN 1 ELSE 0
        IN  /\ Len(chaptersData) = Len(heads) + shift
            /\ \A k \in 1..Len(heads) :
                  k + shift <= Len(chaptersData) =>
                      chaptersData[k + shift].title =
                          HeadingTitle(lines[heads[k]])
            /\ (heads # <<>> => error # NoChaptersError)

=============================================================================
